---- MODULE Spec2Model ----
(***************************************************************************)
(* Batch orchestration of src/src/components/ChatInterface.tsx: handleSend *)
(* (task builder + sequential batch loop), executeSingleGeneration,        *)
(* handleStop and handleRegenerate, as a state machine over the app store  *)
(* (messages, image history, loading flag), the UI store (batch mode and   *)
(* count, toasts) and the component state (batch progress, abort handle).  *)
(*                                                                         *)
(* A prompt is a sequence of one-character strings.  An attachment is an   *)
(* image identifier.  JavaScript's 0-based indices appear 1-based here.    *)
(***************************************************************************)
EXTENDS Integers, Sequences, FiniteSets, TLC

\* ------------------------------------------------------------------ bounds
\* the work committed in one behaviour: one unit per handleSend invocation
\* that passes the checks and one per task it builds (an empty task list
\* counts as one task)
MaxWork == 5
\* largest batch count the user sets in the orchestration specification
MaxBatchCount == 2
\* largest number of attached images
MaxAtt == 2
\* largest batch count tried on the task builder alone
MaxBuilderCount == 5
\* largest number of attached images tried on the task builder alone
MaxBuilderAtt == 3
\* pieces joined into a prompt tried on the task builder alone
MaxPieces == 3

\* ------------------------------------------------------------ text helpers
IsSpace(c) == c \in {" ", "\n"}

RECURSIVE TrimLeft(_)
TrimLeft(s) ==
  IF s = <<>> THEN <<>>
  ELSE IF IsSpace(Head(s)) THEN TrimLeft(Tail(s)) ELSE s

RECURSIVE TrimRight(_)
TrimRight(s) ==
  IF s = <<>> THEN <<>>
  ELSE IF IsSpace(s[Len(s)]) THEN TrimRight(SubSeq(s, 1, Len(s) - 1)) ELSE s

\* String.prototype.trim
Trim(s) == TrimRight(TrimLeft(s))

\* first index >= i of s that holds no dash (Len(s) + 1 when there is none)
RECURSIVE SkipDashes(_, _)
SkipDashes(s, i) ==
  IF i > Len(s) \/ s[i] # "-" THEN i ELSE SkipDashes(s, i + 1)

\* whether the regular expression /---+/ matches at index i of s
DashRunAt(s, i) ==
  /\ i + 2 <= Len(s)
  /\ s[i] = "-" /\ s[i + 1] = "-" /\ s[i + 2] = "-"

\* a mutant of the delimiter: a comma splits too
CommaOrDashRunAt(s, i) ==
  \/ (i <= Len(s) /\ s[i] = ",")
  \/ (i + 2 <= Len(s) /\ s[i] = "-" /\ s[i + 1] = "-" /\ s[i + 2] = "-")

\* where a delimiter starts at index i of s
DelimiterAt(s, i) == DashRunAt(s, i)

\* where the delimiter starting at index i of s ends (first index after it)
DelimiterEnd(s, i) == IF s[i] = "-" THEN SkipDashes(s, i) ELSE i + 1

\* text.split(/---+/): the pieces between the delimiters, empty ones included
RECURSIVE SplitFrom(_, _, _)
SplitFrom(s, i, cur) ==
  IF i > Len(s) THEN <<cur>>
  ELSE IF DelimiterAt(s, i)
       THEN <<cur>> \o SplitFrom(s, DelimiterEnd(s, i), <<>>)
       ELSE SplitFrom(s, i + 1, Append(cur, s[i]))

Split(s) == SplitFrom(s, 1, <<>>)

\* Array.prototype.filter(p => p.length > 0)
RECURSIVE NonEmpty(_)
NonEmpty(ps) ==
  IF ps = <<>> THEN <<>>
  ELSE IF Head(ps) = <<>> THEN NonEmpty(Tail(ps))
       ELSE <<Head(ps)>> \o NonEmpty(Tail(ps))

\* text.split(/---+/).map(p => p.trim()).filter(p => p.length > 0)
SplitPrompts(text) ==
  LET parts == Split(text)
  IN NonEmpty([k \in 1..Len(parts) |-> Trim(parts[k])])

\* ------------------------------------------------------------ task builder
Modes == {"off", "normal", "multi-image", "image-multi-prompt"}

Task(text, atts) == [text |-> text, attachments |-> atts]

Built(tasks) == [ok |-> TRUE, tasks |-> tasks, toast |-> "none"]
Refused(toast) == [ok |-> FALSE, tasks |-> <<>>, toast |-> toast]

\* for (let i = 0; i < batchCount; i++) tasks.push({ text, attachments })
RepeatTasks(text, atts, count) ==
  [i \in 1..count |-> Task(text, atts)]

\* a mutant of the fan-out: every task carries the first image
FanOutTasksFirstImage(text, atts) ==
  [i \in 1..Len(atts) |-> Task(text, <<atts[1]>>)]

\* attachments.map(att => ({ text, attachments: [att] }))
FanOutTasks(text, atts) ==
  [i \in 1..Len(atts) |-> Task(text, <<atts[i]>>)]

\* a mutant of the pairing: prompts are not reused cyclically but clamped
PairTasksClamped(prompts, atts) ==
  [i \in 1..Len(atts) |->
     Task(prompts[IF i <= Len(prompts) THEN i ELSE Len(prompts)], <<atts[i]>>)]

\* attachments.map((att, index) =>
\*   ({ text: prompts[index % prompts.length], attachments: [att] }))
PairTasks(prompts, atts) ==
  [i \in 1..Len(atts) |->
     Task(prompts[((i - 1) % Len(prompts)) + 1], <<atts[i]>>)]

\* a mutant of the validation: the empty-attachment checks are dropped
BuildTasksNoImageCheck(text, atts, mode, count) ==
  IF mode = "normal" THEN Built(RepeatTasks(text, atts, count))
  ELSE IF mode = "multi-image" THEN Built(FanOutTasks(text, atts))
  ELSE IF mode = "image-multi-prompt" THEN
    IF Trim(text) = <<>> THEN Refused("no prompt")
    ELSE IF SplitPrompts(text) = <<>> THEN Refused("no valid prompt")
    ELSE Built(PairTasks(SplitPrompts(text), atts))
  ELSE Built(<<>>)

\* the task list handleSend builds when batchMode is not 'off', or the error
\* toast it returns with
BuildTasks(text, atts, mode, count) ==
  IF mode = "normal" THEN Built(RepeatTasks(text, atts, count))
  ELSE IF mode = "multi-image" THEN
    IF Len(atts) = 0 THEN Refused("no images (multi-image)")
    ELSE Built(FanOutTasks(text, atts))
  ELSE IF mode = "image-multi-prompt" THEN
    IF Len(atts) = 0 THEN Refused("no images (image-multi-prompt)")
    ELSE IF Trim(text) = <<>> THEN Refused("no prompt")
    ELSE IF SplitPrompts(text) = <<>> THEN Refused("no valid prompt")
    ELSE Built(PairTasks(SplitPrompts(text), atts))
  ELSE Built(<<>>)

\* ------------------------------------------------------------------- state
VARIABLES
  apiKey,          \* useAppStore: whether an API key is set
  streamResponse,  \* settings.streamResponse
  batchMode,       \* useUiStore.batchMode
  batchCount,      \* useUiStore.batchCount
  batchProgress,   \* component state {current, total}
  isLoading,       \* useAppStore.isLoading
  messages,        \* useAppStore.messages, the transcript
  imageHistory,    \* the image ledger fed by addImageToHistory
  abortRef,        \* abortControllerRef.current: NoCtl or a controller
  aborted,         \* the controllers of calls in flight whose signal is aborted
  toasts,          \* the info and success toasts fired, in order
  rejected,        \* the last handleSend that returned early: its input and
                   \* its error toast (NoReject before the first)
  runs,            \* one record per handleSend invocation that passed the
                   \* checks, in call order
  modalMode,       \* PipelineModal state `mode`: "serial" or "parallel"
  steps,           \* PipelineModal state `steps`, the editor's step list
  attachments,     \* PipelineModal state `attachments`, the initial images
  isOpen,          \* PipelineModal prop isOpen, held by the parent
  alerted,         \* the alert raised by the latest modal handler ("none"
                   \* when it raised none)
  executed,        \* the onExecute call made by the latest modal handler
                   \* (NoCall when it made none)
  pipeline,        \* the pipeline executor: the invocation it was started
                   \* with and how far it has come (NoPipeline before a start)
  uploads          \* the processFiles calls made on the modal, in call
                   \* order, each with its newAttachments and whether it has
                   \* reached its setAttachments; and the removals counted

chatVars == <<apiKey, streamResponse, batchMode, batchCount, batchProgress,
              isLoading, messages, imageHistory, abortRef, aborted, toasts,
              rejected, runs>>

modalVars == <<modalMode, steps, attachments, isOpen, alerted, executed>>

vars == <<chatVars, modalVars, pipeline, uploads>>

\* what the chat handlers leave alone, and what the editor's handlers do
chatFrame == <<modalVars, pipeline, uploads>>
modalFrame == <<chatVars, pipeline, uploads>>
pipelineFrame == <<chatVars, modalVars, uploads>>

NoReject == [toast |-> "none", text |-> <<>>, atts |-> <<>>, mode |-> "off",
             count |-> 0]

\* abortControllerRef.current = null
NoCtl == <<0, 0>>

\* the AbortController created by task i of run r
Ctl(r, i) == <<r, i>>

\* the results a generation may return, as sequences of part kinds: text,
\* image (inlineData), thoughtImage (inlineData flagged thought).  One result
\* holds no image that is not a thought and ends while thinking, the other
\* holds two.
Results ==
  { <<"text", "thoughtImage">>,
    <<"text", "thoughtImage", "image", "image">> }

\* finalMessage.parts.filter(p => p.inlineData && !p.thought), as part indices
RECURSIVE ImageIndices(_, _)
ImageIndices(parts, k) ==
  IF k > Len(parts) THEN <<>>
  ELSE IF parts[k] = "image" THEN <<k>> \o ImageIndices(parts, k + 1)
       ELSE ImageIndices(parts, k + 1)

UserMessage(r, i, task) ==
  [role |-> "user", run |-> r, task |-> i, text |-> task.text,
   atts |-> task.attachments, parts |-> <<>>, from |-> NoCtl,
   isError |-> FALSE]

ModelMessage(r, i) ==
  [role |-> "model", run |-> r, task |-> i, text |-> <<>>,
   atts |-> <<>>, parts |-> <<>>, from |-> NoCtl, isError |-> FALSE]

\* a mutant of the two addMessage calls: the turn goes to the front
AddTurnInFront(msgs, r, i, task) ==
  <<UserMessage(r, i, task), ModelMessage(r, i)>> \o msgs

\* useAppStore.addMessage, twice: the user message, then the model placeholder
AddTurn(msgs, r, i, task) ==
  msgs \o <<UserMessage(r, i, task), ModelMessage(r, i)>>

\* useAppStore.updateLastMessage(parts, isError): the last message of the
\* store, whichever it is, gets the parts; from names the call they came from
UpdateLastMessage(msgs, parts, from, isError) ==
  IF msgs = <<>> THEN msgs
  ELSE [msgs EXCEPT ![Len(msgs)] =
          [@ EXCEPT !.parts = parts, !.from = from, !.isError = isError]]

\* useAppStore.sliceMessages(index): messages 0..index are kept
SliceMessages(msgs, keep) == SubSeq(msgs, 1, keep)

\* the history entries executeSingleGeneration of task i of run r adds after
\* its call returned: one per non-thought image part of the store's last
\* message, when that is a model message (gen: the collecting task, src: the
\* message read, data: the call the image came from, part: its part index)
CollectImages(msgs, r, i) ==
  IF msgs = <<>> \/ msgs[Len(msgs)].role # "model" THEN <<>>
  ELSE LET fin == msgs[Len(msgs)]
           idx == ImageIndices(fin.parts, 1)
       IN [k \in 1..Len(idx) |->
             [gen |-> <<r, i>>, src |-> <<fin.run, fin.task>>,
              data |-> fin.from, part |-> idx[k]]]

\* the record of a handleSend invocation (mode, count: batchMode and
\* batchCount as it read them)
\*   pc: "gen" (a generation call in flight) | "pause" | "done"
\*   started, ended, outcomes: the tasks whose executeSingleGeneration was
\*   called, those that returned, and how each ended
\*   parts: the parts the stream of the call in flight has delivered
\*   returned: the result of the last task that returned, if it has one
NewRun(pc, mode, count, text, atts, tasks) ==
  [pc |-> pc, batch |-> mode # "off", inText |-> text, inAtts |-> atts,
   inMode |-> mode, inCount |-> count, tasks |-> tasks,
   i |-> IF pc = "gen" THEN 1 ELSE 0,
   started |-> IF pc = "gen" THEN <<1>> ELSE <<>>,
   ended |-> <<>>, outcomes |-> <<>>, parts |-> <<>>, returned |-> <<>>]

RunIds == 1..Len(runs)
\* the most runs a behaviour holds: a run takes two units of work or more
MaxRuns == MaxWork \div 2
InFlight(r) == r \in RunIds /\ runs[r].pc = "gen"
Active(r) == r \in RunIds /\ runs[r].pc \in {"gen", "pause"}

\* ------------------------------------------------- pipeline editor state
\* a step as handleAddStep, handleReset and the initial state create it; the
\* record is the step's prompt and status (its id and modelName are not
\* modelled)
BlankStep == [prompt |-> <<>>, status |-> "pending"]

\* what an array slot holds that was never written: undefined, no step
UndefinedStep == [prompt |-> <<>>, status |-> "undefined"]

NoCall == [called |-> FALSE]

\* no pipeline was started
NoPipeline == [pc |-> "none"]

\* no processFiles call made yet
NoUploads == [calls |-> <<>>, removals |-> 0]

\* PipelineModal's initial state, not yet opened by the parent
ModalInit ==
  /\ modalMode = "serial"
  /\ steps = <<BlankStep>>
  /\ attachments = <<>>
  /\ isOpen = FALSE
  /\ alerted = "none"
  /\ executed = NoCall

Init ==
  /\ apiKey \in BOOLEAN
  /\ streamResponse \in BOOLEAN
  /\ batchMode = "off"
  /\ batchCount = 1
  /\ batchProgress = [current |-> 0, total |-> 0]
  /\ isLoading = FALSE
  /\ messages = <<>>
  /\ imageHistory = <<>>
  /\ abortRef = NoCtl
  /\ aborted = {}
  /\ toasts = <<>>
  /\ rejected = NoReject
  /\ runs = <<>>
  /\ ModalInit
  /\ pipeline = NoPipeline
  /\ uploads = NoUploads

\* ----------------------------------------------------------------- actions
\* the work committed so far
RECURSIVE Work(_)
Work(rs) ==
  IF rs = <<>> THEN 0
  ELSE 1 + (IF Head(rs).tasks = <<>> THEN 1 ELSE Len(Head(rs).tasks))
       + Work(Tail(rs))

\* a mutant of the progress: the tasks that have returned are counted
ProgressOfReturned(i, n) == [current |-> i - 1, total |-> n]

\* setBatchProgress({ current: i + 1, total: tasks.length }) at the head of
\* the loop iteration of task i (counted from 1 here)
Progress(i, n) == [current |-> i, total |-> n]

\* handleSend returns early with an error toast
Reject(toast, text, atts, msgs, mode, count) ==
  /\ rejected' = [toast |-> toast, text |-> text, atts |-> atts,
                  mode |-> mode, count |-> count]
  /\ messages' = msgs
  /\ batchMode' = mode
  /\ UNCHANGED <<batchProgress, isLoading, abortRef, toasts, runs>>

\* handleSend(text, attachments) on the transcript msgs with the batch
\* controls (mode, count) in the UI store, up to its first await: the API key
\* check, the task builder, the batch prologue and the synchronous head of
\* the first executeSingleGeneration (setLoading(true), the two addMessage
\* calls, the new AbortController).  cap bounds the work of a behaviour.
HandleSend(text, atts, msgs, mode, count, cap) ==
  LET r == Len(runs) + 1
      b == BuildTasks(text, atts, mode, count)
      n == Len(b.tasks)
  IN
  /\ batchCount' = count
  /\ UNCHANGED <<apiKey, streamResponse, imageHistory, aborted>>
  /\ IF ~apiKey THEN
       Reject("no api key", text, atts, msgs, mode, count)
     ELSE IF mode # "off" THEN
       IF ~b.ok THEN
         Reject(b.toast, text, atts, msgs, mode, count)
       ELSE IF n = 0 THEN
         \* the loop body never runs: the epilogue follows at once
         /\ Work(runs) + 2 <= cap
         /\ batchProgress' = [current |-> 0, total |-> 0]
         /\ batchMode' = "off"
         /\ toasts' = toasts \o <<[kind |-> "info", run |-> r, n |-> 0],
                                  [kind |-> "success", run |-> r, n |-> 0]>>
         /\ runs' = Append(runs, NewRun("done", mode, count, text, atts, <<>>))
         /\ messages' = msgs
         /\ UNCHANGED <<isLoading, abortRef, rejected>>
       ELSE
         /\ Work(runs) + 1 + n <= cap
         /\ batchProgress' = Progress(1, n)
         /\ toasts' = Append(toasts, [kind |-> "info", run |-> r, n |-> n])
         /\ runs' = Append(runs, NewRun("gen", mode, count, text, atts, b.tasks))
         /\ isLoading' = TRUE
         /\ messages' = AddTurn(msgs, r, 1, b.tasks[1])
         /\ abortRef' = Ctl(r, 1)
         /\ batchMode' = mode
         /\ UNCHANGED rejected
     ELSE
       /\ Work(runs) + 2 <= cap
       /\ runs' = Append(runs, NewRun("gen", mode, count, text, atts,
                                      <<Task(text, atts)>>))
       /\ isLoading' = TRUE
       /\ messages' = AddTurn(msgs, r, 1, Task(text, atts))
       /\ abortRef' = Ctl(r, 1)
       /\ batchMode' = mode
       /\ UNCHANGED <<batchProgress, toasts, rejected>>

\* a mutant of the batch loop: a failed task ends the loop
LoopBreaksOnFailure(outcome) == outcome \notin {"failed", "silenced"}

\* what follows the return of executeSingleGeneration in the batch loop: the
\* catch of the loop logs and goes on, so the loop never leaves early,
\* whatever the outcome of the task
LoopGoesOn(outcome) == TRUE

\* a mutant of the loop bound: the last task is left out
HasNextTaskOffByOne(i, n) == i + 1 < n

\* a mutant of the loop: the pause is taken after the last task too
HasNextTaskAlways(i, n) == TRUE

\* i < tasks.length - 1: a pause and another task follow task i of n
HasNextTask(i, n) == i < n

\* i++ of the batch loop
NextIndex(i) == i + 1

\* whether a stream that delivered parts ended while thinking (its last part
\* is a thought), which makes executeSingleGeneration rewrite the last message
ThinkingAtEnd(parts) ==
  parts # <<>> /\ parts[Len(parts)] \in {"thought", "thoughtImage"}

\* the catch of executeSingleGeneration treats an error as a user stop when it
\* is an AbortError or when the handle's signal is aborted
TreatedAsStop(isAbortError) ==
  isAbortError \/ (abortRef # NoCtl /\ abortRef \in aborted)

FinallyKeepsHandle == isLoading' = FALSE /\ UNCHANGED abortRef

\* the finally block of executeSingleGeneration: setLoading(false) and the
\* handle set to null
Finally == isLoading' = FALSE /\ abortRef' = NoCtl

\* the return of executeSingleGeneration for the task in flight of run r and
\* the batch loop up to its next await (the pause) or its epilogue: the
\* finally block (setLoading(false), the handle set to null), then either the
\* 500 ms timer is set or progress is reset, batch mode switched off and the
\* summary toast fired
EndTask(r, outcome, res, msgs, hist) ==
  LET run == runs[r]
      n == Len(run.tasks)
      pcNext == IF ~run.batch THEN "done"
                ELSE IF ~LoopGoesOn(outcome) THEN "left"
                ELSE IF HasNextTask(run.i, n) THEN "pause"
                ELSE "done"
  IN
  /\ messages' = msgs
  /\ imageHistory' = hist
  /\ Finally
  /\ runs' = [runs EXCEPT ![r] =
                [@ EXCEPT !.pc = pcNext,
                          !.ended = Append(@, run.i),
                          !.outcomes = Append(@, outcome),
                          !.returned = res,
                          !.parts = <<>>]]
  /\ IF run.batch /\ pcNext = "done" THEN
       /\ batchProgress' = [current |-> 0, total |-> 0]
       /\ batchMode' = "off"
       /\ toasts' = Append(toasts, [kind |-> "success", run |-> r, n |-> n])
     ELSE UNCHANGED <<batchProgress, batchMode, toasts>>
  /\ aborted' = aborted \ {Ctl(r, run.i)}
  /\ UNCHANGED <<apiKey, streamResponse, batchCount, rejected>>

\* whether pre is a prefix of seq
IsPrefix(pre, seq) ==
  Len(pre) <= Len(seq) /\ pre = SubSeq(seq, 1, Len(pre))

\* a chunk of the stream arrives, chunk.modelParts being parts (cumulative:
\* the parts delivered before are a proper prefix of it):
\* updateLastMessage(chunk.modelParts, false)
StreamChunk(r, parts) ==
  /\ InFlight(r)
  /\ streamResponse
  /\ Ctl(r, runs[r].i) \notin aborted
  /\ Len(runs[r].parts) < Len(parts)
  /\ IsPrefix(runs[r].parts, parts)
  /\ messages' = UpdateLastMessage(messages, parts, Ctl(r, runs[r].i), FALSE)
  /\ runs' = [runs EXCEPT ![r].parts = parts]
  /\ UNCHANGED <<apiKey, streamResponse, batchMode, batchCount, batchProgress,
                 isLoading, imageHistory, abortRef, aborted, toasts, rejected>>

\* the catch and finally blocks of executeSingleGeneration of run r on an
\* error that is no AbortError; the outcome is "aborted" when the call's own
\* signal was aborted, "silenced" when the error is taken for a stop because
\* of another call's signal, else "failed" and the error text is stored in
\* the store's last message
Caught(r) ==
  IF TreatedAsStop(FALSE)
  THEN EndTask(r, IF Ctl(r, runs[r].i) \in aborted THEN "aborted"
                  ELSE "silenced",
               <<>>, messages, imageHistory)
  ELSE EndTask(r, "failed", <<>>,
               UpdateLastMessage(messages, <<"errorText">>,
                                 Ctl(r, runs[r].i), TRUE),
               imageHistory)

\* the generation call of run r returns res: the stream ends after its last
\* chunk delivered res, or generateContent resolves and updateLastMessage
\* stores res; a stream that ended while thinking rewrites the store's last
\* message (reading it throws a TypeError when the store is empty); then the
\* image parts of the store's last message go to the image history
CallSucceed(r, res) ==
  /\ InFlight(r)
  /\ Ctl(r, runs[r].i) \notin aborted
  /\ streamResponse => runs[r].parts = res
  /\ LET msgs0 == IF streamResponse THEN messages
                  ELSE UpdateLastMessage(messages, res, Ctl(r, runs[r].i),
                                         FALSE)
     IN IF streamResponse /\ ThinkingAtEnd(res) /\ msgs0 = <<>>
        THEN Caught(r)
        ELSE LET msgs1 == IF streamResponse /\ ThinkingAtEnd(res)
                          THEN UpdateLastMessage(msgs0,
                                                 msgs0[Len(msgs0)].parts,
                                                 msgs0[Len(msgs0)].from, FALSE)
                          ELSE msgs0
             IN EndTask(r, "ok", res, msgs1,
                        imageHistory \o CollectImages(msgs1, r, runs[r].i))

\* the generation call of run r throws an error that is no AbortError
CallFail(r) ==
  /\ InFlight(r)
  /\ Caught(r)

\* the generation call of run r, its signal aborted, throws an AbortError
CallAborted(r) ==
  /\ InFlight(r)
  /\ Ctl(r, runs[r].i) \in aborted
  /\ TreatedAsStop(TRUE)
  /\ EndTask(r, "aborted", <<>>, messages, imageHistory)

\* a mutant of the batch loop: executeSingleGeneration is not awaited
LoopResumesUnawaited(r) == runs[r].batch /\ runs[r].pc \in {"pause", "gen"}

\* the batch loop of run r goes to its next iteration once the awaited
\* executeSingleGeneration has returned and the awaited timer has fired
LoopResumes(r) == runs[r].pc = "pause"

\* the 500 ms timer of the batch loop fires: the next iteration up to its
\* await (setBatchProgress, then the head of executeSingleGeneration)
PauseEnd(r) ==
  /\ r \in RunIds
  /\ LoopResumes(r)
  /\ LET i == NextIndex(runs[r].i)
         n == Len(runs[r].tasks)
     IN /\ i <= n
        /\ batchProgress' = Progress(i, n)
        /\ isLoading' = TRUE
        /\ messages' = AddTurn(messages, r, i, runs[r].tasks[i])
        /\ abortRef' = Ctl(r, i)
        /\ runs' = [runs EXCEPT ![r] =
                      [@ EXCEPT !.pc = "gen", !.i = i,
                                !.started = Append(@, i)]]
  /\ UNCHANGED <<apiKey, streamResponse, batchMode, batchCount, imageHistory,
                 aborted, toasts, rejected>>

\* a mutant of handleStop: the handle is not tested before the abort
HandleStopUntested ==
  /\ aborted' = aborted \cup {abortRef}
  /\ UNCHANGED <<apiKey, streamResponse, batchMode, batchCount, batchProgress,
                 isLoading, messages, imageHistory, abortRef, toasts, rejected,
                 runs>>

\* handleStop: the controller the handle holds, if any, is aborted
HandleStop ==
  /\ aborted' = IF abortRef # NoCtl THEN aborted \cup {abortRef} ELSE aborted
  /\ UNCHANGED <<apiKey, streamResponse, batchMode, batchCount, batchProgress,
                 isLoading, messages, imageHistory, abortRef, toasts, rejected,
                 runs>>

\* the user sets the batch controls of the input area (mode, count) and
\* sends; the input area is disabled while isLoading
Send(text, atts, mode, count, cap) ==
  /\ ~isLoading
  /\ HandleSend(text, atts, messages, mode, count, cap)

\* handleRegenerate on the message at index k, with the batch controls as the
\* UI store holds them: the target user message is the message itself or the
\* user message right before a model message; the transcript is cut before
\* the target and its content is sent again
HandleRegenerate(k) ==
  /\ ~isLoading
  /\ k \in 1..Len(messages)
  /\ LET target == IF messages[k].role = "user" THEN k
                   ELSE IF k > 1 /\ messages[k - 1].role = "user" THEN k - 1
                   ELSE 0
     IN /\ target # 0
        /\ HandleSend(messages[target].text, messages[target].atts,
                      SliceMessages(messages, target - 1),
                      batchMode, batchCount, MaxWork)

\* --------------------------------------------------------- specifications
\* the prompts and attachment lists the user sends
SendTexts == { <<"a">> }
AttLists(max) == { [i \in 1..k |-> i] : k \in 0..max }

\* the batch controls the user sets: the count matters in 'normal' mode only
Controls ==
  { c \in [mode : {"off", "normal", "multi-image"}, count : 0..MaxBatchCount] :
      c.mode # "normal" => c.count = 1 }

\* the inputs of a send: a single generation, a repeat batch of every count
\* and a fan-out batch of MaxAtt images
SendInputs ==
  { in \in [text : SendTexts, atts : AttLists(MaxAtt), ctl : Controls] :
      IF in.ctl.mode = "multi-image" THEN Len(in.atts) = MaxAtt
      ELSE in.atts = <<>> }

Next ==
  \/ /\ \E in \in SendInputs :
          Send(in.text, in.atts, in.ctl.mode, in.ctl.count, MaxWork)
     /\ UNCHANGED chatFrame
  \/ /\ \E k \in 1..Len(messages) : HandleRegenerate(k)
     /\ UNCHANGED chatFrame
  \/ HandleStop /\ UNCHANGED chatFrame
  \/ /\ \E r \in RunIds, parts \in Results : StreamChunk(r, parts)
     /\ UNCHANGED chatFrame
  \/ /\ \E r \in RunIds, res \in Results : CallSucceed(r, res)
     /\ UNCHANGED chatFrame
  \/ /\ \E r \in RunIds : CallFail(r)
     /\ UNCHANGED chatFrame
  \/ /\ \E r \in RunIds : CallAborted(r)
     /\ UNCHANGED chatFrame
  \/ /\ \E r \in RunIds : PauseEnd(r)
     /\ UNCHANGED chatFrame

Spec == Init /\ [][Next]_vars

\* the end of the generation call in flight of run r, whatever its outcome
CallEnds(r) ==
  \/ \E res \in Results : CallSucceed(r, res)
  \/ CallFail(r)
  \/ CallAborted(r)

\* while a timer is due or a generation call is in flight, the event loop
\* eventually runs one of them: a timer fires, or a call ends (it returns,
\* throws or is aborted) and its continuation runs
FairSpec ==
  /\ Spec
  /\ WF_vars(/\ \E r \in 1..MaxRuns : PauseEnd(r) \/ CallEnds(r)
             /\ UNCHANGED chatFrame)

\* ------------------------------------------- the task builder on its own
\* handleSend applied once to each input of a larger set, from the initial
\* state or from a transcript restored from the persisted store

RECURSIVE Join(_, _)
Join(ps, sep) ==
  IF ps = <<>> THEN <<>>
  ELSE IF Len(ps) = 1 THEN ps[1]
       ELSE ps[1] \o sep \o Join(Tail(ps), sep)

BuilderPieces == { <<"A">>, <<"B">>, <<"C">>, <<" ">>, <<>> }

BuilderSeps ==
  { <<"-", "-", "-">>, <<"-", "-", "-", "-">>, <<" ", "-", "-", "-", " ">>,
    <<"-", "-">>, <<",", " ">>, <<"\n">> }

PieceSeqs == UNION { [1..k -> BuilderPieces] : k \in 1..MaxPieces }

BuilderTexts == { Join(ps, sep) : ps \in PieceSeqs, sep \in BuilderSeps }

\* every prompt with the pairing mode, two prompts with the other modes; the
\* count matters in 'normal' mode only
BuilderInputs ==
  [text : BuilderTexts, atts : AttLists(MaxBuilderAtt),
   mode : {"image-multi-prompt"}, count : {1}]
  \cup [text : {<<>>, <<"A">>}, atts : AttLists(MaxBuilderAtt),
        mode : {"normal"}, count : 0..MaxBuilderCount]
  \cup [text : {<<>>, <<"A">>}, atts : AttLists(MaxBuilderAtt),
        mode : {"off", "multi-image"}, count : {1}]

\* a transcript of an earlier session
RestoredTranscript ==
  << [role |-> "user", run |-> 0, task |-> 1, text |-> <<"A">>,
      atts |-> <<>>, parts |-> <<>>, from |-> NoCtl, isError |-> FALSE],
     [role |-> "model", run |-> 0, task |-> 1, text |-> <<>>,
      atts |-> <<>>, parts |-> <<"text", "thoughtImage">>, from |-> Ctl(0, 1),
      isError |-> FALSE] >>

BuilderInit ==
  /\ apiKey \in BOOLEAN
  /\ streamResponse = FALSE
  /\ batchMode = "off"
  /\ batchCount = 1
  /\ batchProgress = [current |-> 0, total |-> 0]
  /\ isLoading = FALSE
  /\ messages \in {<<>>, RestoredTranscript}
  /\ imageHistory = <<>>
  /\ abortRef = NoCtl
  /\ aborted = {}
  /\ toasts = <<>>
  /\ rejected = NoReject
  /\ runs = <<>>
  /\ ModalInit
  /\ pipeline = NoPipeline
  /\ uploads = NoUploads

BuilderNext ==
  /\ runs = <<>>
  /\ rejected = NoReject
  /\ \E in \in BuilderInputs :
       Send(in.text, in.atts, in.mode, in.count,
            2 + MaxBuilderCount + MaxBuilderAtt)
  /\ UNCHANGED chatFrame

BuilderSpec == BuilderInit /\ [][BuilderNext]_vars

\* --------------------------------------------------------- pipeline editor
\* (src/src/components/PipelineModal.tsx)

\* the most steps the editor holds
MaxSteps == 5
\* the most initial images the editor holds
MaxAttachments == 14

\* the most initial images tried on the editor
MaxAttached == 2

\* the files the user picks from
PickedFiles == {1}
\* the prompts the user types into a step: empty, blank, not blank
TypedPrompts == {<<>>, <<" ">>, <<"p">>}
\* the values of a step's model selector: '' (default) or a model name
ModelNames == {"", "m"}

\* the prompt of a preset template's step (one token stands for each of the
\* ten preset texts, none of which is blank)
PresetPrompt == <<"t">>

\* the preset templates: their mode and their step prompts
PIPELINE_TEMPLATES ==
  << [mode |-> "serial",
      steps |-> <<PresetPrompt, PresetPrompt, PresetPrompt>>],
     [mode |-> "serial",
      steps |-> <<PresetPrompt, PresetPrompt, PresetPrompt>>],
     [mode |-> "parallel",
      steps |-> <<PresetPrompt, PresetPrompt, PresetPrompt, PresetPrompt>>] >>

\* the sequence s without its k-th element
RemoveAt(s, k) == SubSeq(s, 1, k - 1) \o SubSeq(s, k + 1, Len(s))

CanAddStepAtLimit(list) == Len(list) <= MaxSteps

\* handleAddStep appends a step while there is room
CanAddStep(list) == Len(list) < MaxSteps

CanRemoveLastStep(list) == Len(list) > 0

\* handleRemoveStep removes a step while more than one is left
CanRemoveStep(list) == Len(list) > 1

\* the list handleMoveStep sets: the destructuring swap of index and
\* index -/+ 1.  A target before the first slot is a property of the array,
\* not a slot, so the slot at index becomes undefined; a target after the
\* last slot is a new slot.
MoveStep(list, index, direction) ==
  LET target == IF direction = "up" THEN index - 1 ELSE index + 1
  IN  IF target < 1 THEN [list EXCEPT ![index] = UndefinedStep]
      ELSE IF target > Len(list)
        THEN Append([list EXCEPT ![index] = UndefinedStep], list[index])
      ELSE [list EXCEPT ![index] = list[target], ![target] = list[index]]

AllSteps(list) == list

\* the steps whose trimmed prompt is not empty, last first
ValidStepsReversed(list) ==
  LET I == { k \in 1..Len(list) : Trim(list[k].prompt) # <<>> }
  IN  [ j \in 1..Cardinality(I) |->
          list[CHOOSE k \in I : Cardinality({ l \in I : l > k }) = j - 1] ]

\* the steps handleExecute keeps: those whose trimmed prompt is not empty
RECURSIVE ValidSteps(_)
ValidSteps(list) ==
  IF list = <<>> THEN <<>>
  ELSE IF Len(Trim(Head(list).prompt)) > 0
    THEN <<Head(list)>> \o ValidSteps(Tail(list))
    ELSE ValidSteps(Tail(list))

\* the parent opens the modal; the component stays mounted, so the editor's
\* state is as it was left
OpenModal ==
  /\ ~isOpen
  /\ isOpen' = TRUE
  /\ alerted' = "none"
  /\ executed' = NoCall
  /\ UNCHANGED <<modalMode, steps, attachments>>

\* the close button: onClose
CloseModal ==
  /\ isOpen
  /\ isOpen' = FALSE
  /\ alerted' = "none"
  /\ executed' = NoCall
  /\ UNCHANGED <<modalMode, steps, attachments>>

\* the serial / parallel buttons
SetMode(m) ==
  /\ isOpen
  /\ modalMode' = m
  /\ alerted' = "none"
  /\ executed' = NoCall
  /\ UNCHANGED <<steps, attachments, isOpen>>

\* handleAddStep (the add button is disabled where the handler does
\* nothing)
HandleAddStep ==
  /\ isOpen
  /\ steps' = IF CanAddStep(steps) THEN Append(steps, BlankStep) ELSE steps
  /\ alerted' = "none"
  /\ executed' = NoCall
  /\ UNCHANGED <<modalMode, attachments, isOpen>>

\* handleRemoveStep (a step's remove button is disabled where the handler
\* does nothing)
HandleRemoveStep(index) ==
  /\ isOpen
  /\ steps' = IF CanRemoveStep(steps) THEN RemoveAt(steps, index) ELSE steps
  /\ alerted' = "none"
  /\ executed' = NoCall
  /\ UNCHANGED <<modalMode, attachments, isOpen>>

\* typing into a step's prompt, or choosing its model (which leaves the
\* prompt and the status as they are)
HandleStepChange(index, field, value) ==
  /\ isOpen
  /\ steps' = IF field = "prompt"
                THEN [steps EXCEPT ![index].prompt = value]
                ELSE steps
  /\ alerted' = "none"
  /\ executed' = NoCall
  /\ UNCHANGED <<modalMode, attachments, isOpen>>

\* handleMoveStep(index, direction), whatever the index and the direction
CallMoveStep(index, direction) ==
  /\ isOpen
  /\ steps' = MoveStep(steps, index, direction)
  /\ alerted' = "none"
  /\ executed' = NoCall
  /\ UNCHANGED <<modalMode, attachments, isOpen>>

\* handleMoveStep as the editor calls it: a step's up button is disabled on
\* the first step, its down button on the last
HandleMoveStep(index, direction) ==
  /\ IF direction = "up" THEN index # 1 ELSE index # Len(steps)
  /\ CallMoveStep(index, direction)

\* list.slice(0, n)
Slice(list, n) == SubSeq(list, 1, IF Len(list) < n THEN Len(list) ELSE n)

\* the update without its slice
AddAttachmentsUncut(prev, newAttachments) == prev \o newAttachments

\* the update processFiles hands to setAttachments:
\* prev => [...prev, ...newAttachments].slice(0, 14)
AddAttachments(prev, newAttachments) ==
  Slice(prev \o newAttachments, MaxAttachments)

\* handleFileSelect / processFiles: the picked image files are appended and
\* the list is cut to MaxAttachments; the upload button is disabled at
\* MaxAttachments images
ProcessFiles(files) ==
  /\ isOpen
  /\ Len(attachments) < MaxAttachments
  /\ Len(attachments) + Len(files) <= MaxAttached
  /\ attachments' = AddAttachments(attachments, files)
  /\ alerted' = "none"
  /\ executed' = NoCall
  /\ UNCHANGED <<modalMode, steps, isOpen>>

RemoveAttachment(index) ==
  /\ isOpen
  /\ attachments' = RemoveAt(attachments, index)
  /\ alerted' = "none"
  /\ executed' = NoCall
  /\ UNCHANGED <<modalMode, steps, isOpen>>

HandleApplyTemplate(template) ==
  /\ isOpen
  /\ modalMode' = template.mode
  /\ steps' = [ idx \in 1..Len(template.steps) |->
                  [prompt |-> template.steps[idx], status |-> "pending"] ]
  /\ alerted' = "none"
  /\ executed' = NoCall
  /\ UNCHANGED <<attachments, isOpen>>

\* handleExecute: two early returns with an alert, else onExecute with the
\* valid steps and onClose
HandleExecute ==
  /\ isOpen
  /\ IF Len(ValidSteps(steps)) = 0 THEN
       /\ alerted' = "no step"
       /\ executed' = NoCall
       /\ UNCHANGED <<modalMode, steps, attachments, isOpen>>
     ELSE IF Len(attachments) = 0 THEN
       /\ alerted' = "no image"
       /\ executed' = NoCall
       /\ UNCHANGED <<modalMode, steps, attachments, isOpen>>
     ELSE
       /\ executed' = [called |-> TRUE, mode |-> modalMode,
                       steps |-> ValidSteps(steps),
                       attachments |-> attachments]
       /\ isOpen' = FALSE
       /\ alerted' = "none"
       /\ UNCHANGED <<modalMode, steps, attachments>>

HandleReset ==
  /\ isOpen
  /\ modalMode' = "serial"
  /\ steps' = <<BlankStep>>
  /\ attachments' = <<>>
  /\ alerted' = "none"
  /\ executed' = NoCall
  /\ UNCHANGED isOpen

\* the chat is idle while the editor is used
ModalStart == Init /\ ~apiKey /\ ~streamResponse

ModalNext ==
  \/ OpenModal /\ UNCHANGED modalFrame
  \/ CloseModal /\ UNCHANGED modalFrame
  \/ /\ \E m \in {"serial", "parallel"} : SetMode(m)
     /\ UNCHANGED modalFrame
  \/ HandleAddStep /\ UNCHANGED modalFrame
  \/ /\ \E index \in 1..Len(steps) : HandleRemoveStep(index)
     /\ UNCHANGED modalFrame
  \/ /\ \E index \in 1..Len(steps), field \in {"prompt", "modelName"} :
          \E value \in IF field = "prompt" THEN TypedPrompts ELSE ModelNames :
            HandleStepChange(index, field, value)
     /\ UNCHANGED modalFrame
  \/ /\ \E index \in 1..Len(steps), direction \in {"up", "down"} :
          HandleMoveStep(index, direction)
     /\ UNCHANGED modalFrame
  \/ /\ \E n \in 1..MaxAttached : \E files \in [1..n -> PickedFiles] :
          ProcessFiles(files)
     /\ UNCHANGED modalFrame
  \/ /\ \E index \in 1..Len(attachments) : RemoveAttachment(index)
     /\ UNCHANGED modalFrame
  \/ /\ \E k \in 1..Len(PIPELINE_TEMPLATES) :
          HandleApplyTemplate(PIPELINE_TEMPLATES[k])
     /\ UNCHANGED modalFrame
  \/ HandleExecute /\ UNCHANGED modalFrame
  \/ HandleReset /\ UNCHANGED modalFrame

ModalSpec == ModalStart /\ [][ModalNext]_vars

\* every slot of the step list holds a step; the modal renders each step's
\* prompt, so with an undefined slot the render throws and the modal is gone
Intact == \A k \in 1..Len(steps) : steps[k] # UndefinedStep

\* the editor with handleMoveStep taken as a function of every index and
\* direction, the two its buttons never pass included
MoveNext ==
  \/ Intact /\ ModalNext
  \/ /\ Intact
     /\ \E index \in 1..Len(steps), direction \in {"up", "down"} :
          CallMoveStep(index, direction)
     /\ UNCHANGED modalFrame

MoveSpec == ModalStart /\ [][MoveNext]_vars

\* ------------------------------------------------ the editor's image list
\* processFiles is asynchronous: it reads its files one by one and only then
\* updates the list, so calls overlap with each other and with removals

\* the most files picked at once
MaxPicked == 15
\* the processFiles calls made in one behaviour
MaxCalls == 2
\* the removals made in one behaviour
MaxRemovals == 1

\* the k-th file of the call-th pick
FileId(call, k) == (call - 1) * (MaxPicked + 1) + k

\* a pick of n files, all of them PNG images that can be read, but for the
\* second: odd = "text" makes it a text file, odd = "unreadable" an image
\* whose fileToBase64 rejects
Pick(call, n, odd) ==
  [ k \in 1..n |->
      [id |-> FileId(call, k),
       type |-> IF k = 2 /\ odd = "text" THEN <<"text", "plain">>
                ELSE <<"image", "png">>,
       readable |-> ~(k = 2 /\ odd = "unreadable")] ]

Picks(call) ==
  { Pick(call, n, odd) : n \in {1, MaxPicked},
                        odd \in {"none", "text", "unreadable"} }

\* file.type.startsWith('image/')
IsImageFile(file) == file.type[1] = "image"

\* the loop of processFiles: an image file that can be read becomes an
\* attachment, any other file is passed over
RECURSIVE NewAttachments(_)
NewAttachments(files) ==
  IF files = <<>> THEN <<>>
  ELSE IF IsImageFile(Head(files)) /\ Head(files).readable
         THEN <<Head(files).id>> \o NewAttachments(Tail(files))
         ELSE NewAttachments(Tail(files))

\* the upload button (disabled at MaxAttachments images) and the file
\* dialog: handleFileSelect calls processFiles, which reads the files into
\* its own newAttachments; the reads touch nothing else
BeginProcessFiles(files) ==
  /\ isOpen
  /\ Len(attachments) < MaxAttachments
  /\ Len(uploads.calls) < MaxCalls
  /\ uploads' = [uploads EXCEPT !.calls =
                   Append(@, [newAttachments |-> NewAttachments(files),
                              pending |-> TRUE])]
  /\ alerted' = "none"
  /\ executed' = NoCall
  /\ UNCHANGED <<modalMode, steps, attachments, isOpen>>

\* the call's last statement, after its reads: the functional update works
\* on the list as it is by then
FinishProcessFiles(c) ==
  /\ uploads.calls[c].pending
  /\ attachments' = AddAttachments(attachments,
                                   uploads.calls[c].newAttachments)
  /\ uploads' = [uploads EXCEPT !.calls[c].pending = FALSE]
  /\ UNCHANGED <<modalMode, steps, isOpen, alerted, executed>>

AttachNext ==
  \/ OpenModal /\ UNCHANGED modalFrame
  \/ CloseModal /\ UNCHANGED modalFrame
  \/ /\ \E files \in Picks(Len(uploads.calls) + 1) : BeginProcessFiles(files)
     /\ UNCHANGED <<chatVars, pipeline>>
  \/ /\ \E c \in 1..Len(uploads.calls) : FinishProcessFiles(c)
     /\ UNCHANGED <<chatVars, pipeline>>
  \/ /\ uploads.removals < MaxRemovals
     /\ \E index \in 1..Len(attachments) : RemoveAttachment(index)
     /\ uploads' = [uploads EXCEPT !.removals = @ + 1]
     /\ UNCHANGED <<chatVars, pipeline>>
  \/ HandleReset /\ UNCHANGED modalFrame

AttachSpec == ModalStart /\ [][AttachNext]_vars

\* -------------------------------------------------------- pipeline executor
\* The executor that onExecute starts is not part of the files modelled
\* above; it is written here from section 4.3 of the specification (serial
\* chaining, parallel fan-out) and from its scheduling and error sections
\* (one step at a time; a generation error is fatal to a serial chain and
\* isolated in parallel mode; a stop aborts the call in flight and halts the
\* steps that remain).

\* the most steps of a pipeline tried on the executor
MaxPipeSteps == 3
\* the most initial images tried on the executor
MaxPipeImages == 2

\* an image: part `part` of the result of step `step`; step 0 is the initial
\* image set
InitialImages(m) == [ j \in 1..m |-> [step |-> 0, part |-> j] ]

RECURSIVE PartsAsImages(_, _, _)
PartsAsImages(k, idx, j) ==
  IF j > Len(idx) THEN <<>>
  ELSE <<[step |-> k, part |-> idx[j]]>> \o PartsAsImages(k, idx, j + 1)

RECURSIVE InlineIndices(_, _)
InlineIndices(parts, k) ==
  IF k > Len(parts) THEN <<>>
  ELSE IF parts[k] \in {"image", "thoughtImage"}
         THEN <<k>> \o InlineIndices(parts, k + 1)
         ELSE InlineIndices(parts, k + 1)

\* every inline part of the result of step k, thought or not
AllResultImages(k, parts) == PartsAsImages(k, InlineIndices(parts, 1), 1)

\* the images of the result of step k: its image parts that are not thoughts
ResultImages(k, parts) == PartsAsImages(k, ImageIndices(parts, 1), 1)

\* the input of a serial step: the images of the latest result (the initial
\* image set before the first)
FedForward(p) == p.feed

\* a parallel step fed like a serial one
SharedChained(p) == p.feed

\* the input of a parallel step: the initial image set
SharedInitial(p) == p.initial

\* the input image set of the step the executor invokes next
InputOfStep(p) == IF p.mode = "serial" THEN FedForward(p) ELSE SharedInitial(p)

\* the statuses after step k failed: in a serial chain the steps after k
\* inherit the failure, in parallel mode they are left as they are
FailFrom(p, k) ==
  [ j \in 1..Len(p.status) |->
      IF j = k \/ (p.mode = "serial" /\ j > k) THEN "failed"
      ELSE p.status[j] ]

\* whether the executor goes on to step k + 1 after step k failed
GoesOnAfterFailure(p) == p.mode = "parallel"

\* the executor right after startPipeline(mode, steps, initialImages), with
\* steps and images as handleExecute passes them: at least one step, every
\* one pending, and at least one image
StartedPipeline(mode, n, m) ==
  [ pc |-> "ready",
    mode |-> mode,
    status |-> [k \in 1..n |-> "pending"],
    initial |-> InitialImages(m),
    feed |-> InitialImages(m),
    cur |-> 1,
    invoked |-> <<>>,
    inputs |-> [k \in 1..n |-> <<>>],
    results |-> [k \in 1..n |-> <<>>],
    inflight |-> {} ]

\* the executor invokes step cur: one generation call with the step's input
StepStart ==
  /\ pipeline.pc = "ready"
  /\ pipeline' = [pipeline EXCEPT
       !.pc = "call",
       !.status[pipeline.cur] = "running",
       !.invoked = Append(@, pipeline.cur),
       !.inputs[pipeline.cur] = InputOfStep(pipeline),
       !.inflight = @ \cup {pipeline.cur}]

\* where the executor is after step k ended without stopping the pipeline
AfterStep(p, k) ==
  IF k = Len(p.status) THEN [p EXCEPT !.pc = "done"]
  ELSE [p EXCEPT !.pc = "ready", !.cur = k + 1]

\* the step's generation call failed
StepFailed(p, k) ==
  LET q == [p EXCEPT !.status = FailFrom(p, k), !.inflight = @ \ {k}]
  IN  IF GoesOnAfterFailure(p) THEN AfterStep(q, k)
      ELSE [q EXCEPT !.pc = "failed"]

\* the step's generation call returned res: a serial chain feeds the images
\* of res forward and fails at the step when there is none
StepReturned(p, k, res) ==
  LET q == [p EXCEPT !.results[k] = res, !.inflight = @ \ {k}]
  IN  IF p.mode = "serial" /\ ResultImages(k, res) = <<>>
        THEN [q EXCEPT !.status = FailFrom(p, k), !.pc = "failed"]
        ELSE AfterStep([q EXCEPT !.status[k] = "done",
                                 !.feed = ResultImages(k, res)], k)

StepSucceed(res) ==
  /\ pipeline.pc = "call"
  /\ pipeline' = StepReturned(pipeline, pipeline.cur, res)

StepFail ==
  /\ pipeline.pc = "call"
  /\ pipeline' = StepFailed(pipeline, pipeline.cur)

\* the user stops the pipeline: the call in flight is aborted and the steps
\* that remain are not executed; a stop is not a failure, and no status is
\* set
PipelineStop ==
  /\ pipeline.pc = "call"
  /\ pipeline' = [pipeline EXCEPT
       !.pc = "stopped",
       !.inflight = @ \ {pipeline.cur}]

\* startPipeline(mode, steps, initialImages): one pipeline per behaviour,
\* started with any mode, step count and image count
StartPipeline(mode, n, m) ==
  /\ pipeline.pc = "none"
  /\ pipeline' = StartedPipeline(mode, n, m)

PipelineNext ==
  \/ /\ \E mode \in {"serial", "parallel"}, n \in 1..MaxPipeSteps,
          m \in 1..MaxPipeImages : StartPipeline(mode, n, m)
     /\ UNCHANGED pipelineFrame
  \/ StepStart /\ UNCHANGED pipelineFrame
  \/ /\ \E res \in Results : StepSucceed(res)
     /\ UNCHANGED pipelineFrame
  \/ StepFail /\ UNCHANGED pipelineFrame
  \/ PipelineStop /\ UNCHANGED pipelineFrame

\* the chat and the editor are idle while the pipeline runs
PipelineSpec == ModalStart /\ [][PipelineNext]_vars

\* ------------------------------------------------------------ properties
BatchRuns == { r \in RunIds : runs[r].batch }

\* the summary toasts fired for run r
SuccessToasts(r) ==
  { j \in 1..Len(toasts) : toasts[j].kind = "success" /\ toasts[j].run = r }

\* C1: the tasks of a batch run are executed strictly one after another, in
\* list order: the tasks started so far are tasks 1, 2, .. in that order, each
\* carrying the content of its place in the task list; the tasks that have
\* returned are a prefix of the tasks started; and at most one generation call
\* of the run is in flight, which is the case exactly while the run waits for
\* a call -- no task starts before the previous one has returned.
C1_OneTaskAtATime ==
  \A r \in BatchRuns :
    LET run == runs[r] IN
    /\ \A k \in 1..Len(run.started) : run.started[k] = k
    /\ Len(run.started) <= Len(run.tasks)
    /\ IsPrefix(run.ended, run.started)
    /\ Len(run.started) - Len(run.ended) \in {0, 1}
    /\ (run.pc = "gen") <=> (Len(run.started) = Len(run.ended) + 1)
    /\ \A j \in 1..Len(messages) :
         (messages[j].run = r /\ messages[j].role = "user") =>
           /\ messages[j].task \in 1..Len(run.started)
           /\ messages[j].text = run.tasks[messages[j].task].text
           /\ messages[j].atts = run.tasks[messages[j].task].attachments

\* the second task of a batch run is in flight after the first has returned
C1_Witness ==
  \E r \in BatchRuns :
    /\ runs[r].pc = "gen"
    /\ runs[r].started = <<1, 2>>
    /\ runs[r].ended = <<1>>

\* C2: when the user stops a batch while a task is in flight, the call in
\* flight is aborted and the run halts: no task after the aborted one is
\* started and no summary toast is fired for the run.
C2_StopHaltsBatch ==
  \A r \in BatchRuns :
    \A k \in 1..Len(runs[r].outcomes) :
      runs[r].outcomes[k] = "aborted" =>
        /\ Len(runs[r].started) = k
        /\ SuccessToasts(r) = {}

\* C3: a failed task never ends a batch run early and nothing is rolled back.
\* A batch run is always at a call, at a pause or past its epilogue, a pause
\* only comes before a further task, and once the run is over every one of
\* its n tasks has been attempted exactly once, in order, each with an
\* outcome.  The step in which a task fails adds and removes no message,
\* changes no message but the last one (where the error is stored) and leaves
\* the image history alone; in a run on its own the message that gets the
\* error is the placeholder of the failing task.
C3_RunShape ==
  \A r \in BatchRuns :
    LET run == runs[r]
        n == Len(run.tasks)
    IN /\ run.pc \in {"gen", "pause", "done"}
       /\ run.pc = "pause" => Len(run.ended) < n
       /\ run.pc = "done" =>
            /\ run.started = [k \in 1..n |-> k]
            /\ run.ended = run.started
            /\ Len(run.outcomes) = n

TaskFails(r) ==
  /\ r \in RunIds
  /\ runs[r].batch
  /\ runs'[r].outcomes = Append(runs[r].outcomes, "failed")

C3_FailureStep ==
  \A r \in 1..MaxRuns :
    TaskFails(r) =>
      /\ Len(messages') = Len(messages)
      /\ \A j \in 1..(Len(messages) - 1) : messages'[j] = messages[j]
      /\ imageHistory' = imageHistory
      /\ runs'[r].pc = IF runs[r].i < Len(runs[r].tasks) THEN "pause"
                       ELSE "done"
      /\ Len(runs) = 1 =>
           /\ messages # <<>>
           /\ messages[Len(messages)].run = r
           /\ messages[Len(messages)].task = runs[r].i
           /\ messages[Len(messages)].role = "model"
           /\ messages'[Len(messages)].isError

C3_FailureNeverStops == []C3_RunShape /\ [][C3_FailureStep]_vars

\* a batch run of two tasks or more is over, its first task failed
C3_Witness ==
  \E r \in BatchRuns :
    /\ runs[r].pc = "done"
    /\ Len(runs[r].tasks) >= 2
    /\ runs[r].outcomes[1] = "failed"
    /\ Len(runs[r].started) = Len(runs[r].tasks)

\* C4: no two batch runs are active at once: while a batch run is at a call
\* or at a pause, no other run, batch or single, is at a call or at a pause
\* (a send or a regeneration during a batch is rejected).
C4_OneRunAtATime ==
  \A r1 \in BatchRuns : \A r2 \in RunIds :
    (r1 # r2 /\ Active(r1)) => ~Active(r2)

\* a batch run none of whose tasks was stopped by the user
NotCancelled(rs, r) ==
  \A k \in 1..Len(rs[r].outcomes) : rs[r].outcomes[k] # "aborted"

\* the step in which run r reaches the end of handleSend
RunCompletes(r) ==
  /\ r \in 1..Len(runs')
  /\ runs'[r].batch
  /\ runs'[r].pc = "done"
  /\ r \in RunIds => runs[r].pc # "done"

C5_CompletionStep ==
  \A r \in 1..MaxRuns :
    (RunCompletes(r) /\ NotCancelled(runs', r)) =>
      /\ Len(runs'[r].ended) = Len(runs'[r].tasks)
      /\ batchProgress' = [current |-> 0, total |-> 0]
      /\ toasts' = Append(IF r \in RunIds THEN toasts
                          ELSE Append(toasts, [kind |-> "info", run |-> r,
                                               n |-> Len(runs'[r].tasks)]),
                          [kind |-> "success", run |-> r,
                           n |-> Len(runs'[r].tasks)])

C5_OneSummary ==
  \A r \in BatchRuns :
    NotCancelled(runs, r) =>
      /\ Cardinality(SuccessToasts(r)) = IF runs[r].pc = "done" THEN 1 ELSE 0
      /\ \A j \in SuccessToasts(r) : toasts[j].n = Len(runs[r].tasks)

\* no batch run stays unfinished for ever: again and again every batch run
\* started so far is over or was cancelled (both are stable)
C5_Terminates ==
  []<>(\A r \in BatchRuns : runs[r].pc = "done" \/ ~NotCancelled(runs, r))

\* C5: every batch run that is not cancelled terminates, whatever the
\* outcomes of its tasks: it reaches the end of handleSend, and the step that
\* takes it there comes after all n tasks have returned, resets the progress
\* to {0, 0} and fires the summary toast carrying n; the run has no summary
\* toast before that step and exactly one after it.
C5_BatchTerminates ==
  C5_Terminates /\ []C5_OneSummary /\ [][C5_CompletionStep]_vars

\* a batch run of two tasks is over, one task failed and one succeeded, the
\* progress is reset and the summary toast is the last toast
C5_Witness ==
  \E r \in BatchRuns :
    /\ runs[r].pc = "done"
    /\ runs[r].outcomes = <<"failed", "ok">>
    /\ batchProgress = [current |-> 0, total |-> 0]
    /\ toasts # <<>>
    /\ toasts[Len(toasts)] = [kind |-> "success", run |-> r, n |-> 2]

\* C6: the transcript and the image history grow in task order: of two
\* messages of one run the one of the earlier task comes first, the user
\* message of a task comes right before its model placeholder, and of two
\* history entries collected by one run the one collected by the earlier task
\* comes first.
C6_SubmissionOrder ==
  /\ \A p \in 1..Len(messages) : \A q \in (p + 1)..Len(messages) :
       (messages[p].run = messages[q].run) =>
         /\ messages[p].task <= messages[q].task
         /\ messages[p].task = messages[q].task =>
              /\ q = p + 1
              /\ messages[p].role = "user"
              /\ messages[q].role = "model"
  /\ \A p \in 1..Len(imageHistory) : \A q \in (p + 1)..Len(imageHistory) :
       (imageHistory[p].gen[1] = imageHistory[q].gen[1]) =>
         imageHistory[p].gen[2] <= imageHistory[q].gen[2]

\* both tasks of a batch run of two have their messages in the transcript
\* and their images in the history
C6_Witness ==
  \E r \in BatchRuns :
    /\ Len(messages) = 4
    /\ \A j \in 1..4 : messages[j].run = r
    /\ \E p, q \in 1..Len(imageHistory) :
         imageHistory[p].gen = <<r, 1>> /\ imageHistory[q].gen = <<r, 2>>

\* ------------------------------------------- properties of the task builder
\* the input of the handleSend invocation a step makes
StepInput ==
  IF runs' # runs
  THEN [text |-> runs'[Len(runs')].inText, atts |-> runs'[Len(runs')].inAtts,
        mode |-> runs'[Len(runs')].inMode]
  ELSE [text |-> rejected'.text, atts |-> rejected'.atts,
        mode |-> rejected'.mode]

\* a batch request that cannot yield a task list: a per-image mode without an
\* image, or the pairing mode with a blank prompt or with a prompt that holds
\* no sub-prompt
Malformed(text, atts, mode) ==
  \/ mode \in {"multi-image", "image-multi-prompt"} /\ atts = <<>>
  \/ mode = "image-multi-prompt" /\ \A k \in 1..Len(text) : IsSpace(text[k])
  \/ mode = "image-multi-prompt" /\ SplitPrompts(text) = <<>>

ValidationToasts ==
  { "no images (multi-image)", "no images (image-multi-prompt)", "no prompt",
    "no valid prompt" }

C7_Step ==
  Malformed(StepInput.text, StepInput.atts, StepInput.mode) =>
    /\ rejected'.toast # "none"
    /\ apiKey => rejected'.toast \in ValidationToasts
    /\ runs' = runs
    /\ messages' = messages
    /\ imageHistory' = imageHistory
    /\ batchProgress' = batchProgress
    /\ isLoading' = isLoading
    /\ abortRef' = abortRef
    /\ toasts' = toasts

\* C7: a malformed batch request is rejected up front: handleSend returns
\* with an error toast and the step starts no run (no generation call is
\* made, no controller created), adds no message to the transcript, leaves
\* the batch progress, the loading flag and the image history as they were
\* and fires no batch toast.
C7_MalformedRejected == [][C7_Step]_vars

\* with an API key set, a pairing request whose prompt holds delimiters only
\* was refused and the restored transcript is as it was
C7_Witness ==
  /\ apiKey
  /\ rejected.mode = "image-multi-prompt"
  /\ rejected.toast = "no valid prompt"
  /\ rejected.atts # <<>>
  /\ messages = RestoredTranscript
  /\ runs = <<>>

\* C8: in repeat mode a count within 1..4 yields that many identical tasks,
\* each carrying the prompt and all the attachments, and a count outside
\* 1..4 is refused: no run exists for it.
C8_RepeatCountChecked ==
  \A r \in RunIds :
    runs[r].inMode = "normal" =>
      /\ runs[r].inCount \in 1..4
      /\ runs[r].tasks =
           [i \in 1..runs[r].inCount |->
              Task(runs[r].inText, runs[r].inAtts)]

\* C9: in the pairing mode with N images and M sub-prompts (M >= 1) the task
\* list has N tasks, and task i (counted from 0) carries sub-prompt i mod M
\* and image i alone: sub-prompts are reused cyclically when M < N and the
\* surplus ones are unused when M > N.
C9_CyclicPairing ==
  \A r \in RunIds :
    runs[r].inMode = "image-multi-prompt" =>
      LET P == SplitPrompts(runs[r].inText)
          M == Len(P)
          N == Len(runs[r].inAtts)
      IN /\ M >= 1
         /\ N >= 1
         /\ Len(runs[r].tasks) = N
         /\ \A i \in 0..(N - 1) :
              /\ runs[r].tasks[i + 1].text = P[(i % M) + 1]
              /\ runs[r].tasks[i + 1].attachments = <<runs[r].inAtts[i + 1]>>

\* three images paired with two sub-prompts: the first sub-prompt is reused
C9_Witness ==
  \E r \in RunIds :
    /\ runs[r].inMode = "image-multi-prompt"
    /\ Len(SplitPrompts(runs[r].inText)) = 2
    /\ Len(runs[r].inAtts) = 3
    /\ runs[r].tasks[3].text = runs[r].tasks[1].text
    /\ runs[r].tasks[2].text # runs[r].tasks[1].text

\* sequences of one to MaxPieces sub-prompts, each a single letter
LetterSeqs == UNION { [1..k -> {<<"A">>, <<"B">>, <<"C">>}] : k \in 1..MaxPieces }

DashSeps ==
  { <<"-", "-", "-">>, <<"-", "-", "-", "-">>, <<" ", "-", "-", "-", " ">> }

OtherSeps == { <<",", " ">>, <<"\n">>, <<"-", "-">> }

\* C10 as stated: in the pairing mode the prompt is split at commas and
\* newlines, so K sub-prompts so delimited with N <= K images yield N tasks
\* whose prompts are the first N sub-prompts ("A, B, C" with 2 images yields
\* [{A, image 0}, {B, image 1}]).
C10_CommaSplit ==
  \A r \in RunIds :
    runs[r].inMode = "image-multi-prompt" =>
      \A ps \in LetterSeqs : \A sep \in {<<",", " ">>, <<"\n">>} :
        (runs[r].inText = Join(ps, sep) /\ Len(runs[r].inAtts) <= Len(ps)) =>
          runs[r].tasks =
            [i \in 1..Len(runs[r].inAtts) |->
               Task(ps[i], <<runs[r].inAtts[i]>>)]

\* C10: in the pairing mode the prompt is split at runs of three or more
\* dashes, blanks around a sub-prompt dropped: K sub-prompts so delimited with
\* N <= K images yield N tasks whose prompts are the first N sub-prompts, in
\* order, each with its image; commas, newlines and shorter dash runs do not
\* split, so a prompt of letters joined by them is one sub-prompt and every
\* task carries the whole of it.
C10_DashSplit ==
  \A r \in RunIds :
    runs[r].inMode = "image-multi-prompt" =>
      \A ps \in LetterSeqs :
        /\ \A sep \in DashSeps :
             (runs[r].inText = Join(ps, sep)
                /\ Len(runs[r].inAtts) <= Len(ps)) =>
               runs[r].tasks =
                 [i \in 1..Len(runs[r].inAtts) |->
                    Task(ps[i], <<runs[r].inAtts[i]>>)]
        /\ \A sep \in OtherSeps :
             runs[r].inText = Join(ps, sep) =>
               runs[r].tasks =
                 [i \in 1..Len(runs[r].inAtts) |->
                    Task(runs[r].inText, <<runs[r].inAtts[i]>>)]

\* "A---B---C" with two images was paired: A with the first, B with the second
C10_Witness ==
  \E r \in RunIds :
    /\ runs[r].inMode = "image-multi-prompt"
    /\ runs[r].inText = <<"A", "-", "-", "-", "B", "-", "-", "-", "C">>
    /\ runs[r].inAtts = <<1, 2>>
    /\ runs[r].tasks = <<Task(<<"A">>, <<1>>), Task(<<"B">>, <<2>>)>>

\* C11: in the fan-out mode with N >= 1 images the task list has N tasks,
\* every task carries the prompt as it was given and one image, and task i
\* carries image i: every image of the input is in exactly one task.
C11_FanOut ==
  \A r \in RunIds :
    runs[r].inMode = "multi-image" =>
      LET N == Len(runs[r].inAtts)
          T == runs[r].tasks
      IN /\ N >= 1
         /\ Len(T) = N
         /\ \A i \in 1..N :
              /\ T[i].text = runs[r].inText
              /\ T[i].attachments = <<runs[r].inAtts[i]>>
         /\ \A k \in 1..N :
              Cardinality({ i \in 1..Len(T) : \E j \in 1..Len(T[i].attachments) :
                              T[i].attachments[j] = runs[r].inAtts[k] }) = 1

\* three images were fanned out with a prompt
C11_Witness ==
  \E r \in RunIds :
    /\ runs[r].inMode = "multi-image"
    /\ runs[r].inText = <<"A">>
    /\ Len(runs[r].inAtts) = 3
    /\ Len(runs[r].tasks) = 3

\* C12: a batch that is started has a task to run: every run made with the
\* batch mode on has a task list of one task or more, whatever the mode and
\* the count; a run made with the mode off has one task, the prompt and the
\* attachments as they were given.
C12_NoEmptyBatch ==
  \A r \in RunIds :
    /\ runs[r].inMode # "off" => Len(runs[r].tasks) >= 1
    /\ runs[r].inMode = "off" =>
         runs[r].tasks = <<Task(runs[r].inText, runs[r].inAtts)>>

\* the step in which the task in flight of batch run r returns
TaskEnds(r) ==
  /\ r \in RunIds
  /\ runs[r].batch
  /\ Len(runs'[r].ended) = Len(runs[r].ended) + 1

\* the step in which batch run r starts a task after its first
TaskStarts(r) ==
  /\ r \in RunIds
  /\ runs[r].batch
  /\ Len(runs'[r].started) = Len(runs[r].started) + 1

C13_Step ==
  \A r \in 1..MaxRuns :
    /\ TaskEnds(r) =>
         LET i == runs[r].i
             n == Len(runs[r].tasks)
         IN IF i < n
            THEN /\ runs'[r].pc = "pause"
                 /\ toasts' = toasts
            ELSE /\ runs'[r].pc = "done"
                 /\ batchProgress' = [current |-> 0, total |-> 0]
                 /\ toasts' = Append(toasts, [kind |-> "success", run |-> r,
                                              n |-> n])
    /\ TaskStarts(r) =>
         /\ runs[r].pc = "pause"
         /\ runs'[r].pc = "gen"
         /\ runs'[r].i = runs[r].i + 1
         /\ Len(runs[r].ended) = runs[r].i

\* C13: in a batch of n tasks the end of every task but the last leads to a
\* pause, whatever the outcome of the task, and a task after the first starts
\* out of a pause only, the pause that followed the task before it; the end
\* of the last task leads to no pause: the same step resets the progress and
\* fires the summary toast.
C13_PauseBetweenTasks == [][C13_Step]_vars

\* a batch run is at the pause that follows its first task, which failed
C13_Witness ==
  \E r \in BatchRuns :
    /\ runs[r].pc = "pause"
    /\ runs[r].outcomes = <<"failed">>
    /\ Len(runs[r].tasks) = 2

\* the step in which the call in flight of run r returns a result
TaskReturns(r) ==
  /\ r \in RunIds
  /\ runs'[r].outcomes = Append(runs[r].outcomes, "ok")

C14_Step ==
  \A r \in 1..MaxRuns :
    TaskReturns(r) =>
      LET i == runs[r].i
          idx == ImageIndices(runs'[r].returned, 1)
          new == SubSeq(imageHistory', Len(imageHistory) + 1,
                        Len(imageHistory'))
      IN /\ IsPrefix(imageHistory, imageHistory')
         /\ Len(new) = Len(idx)
         /\ \A k \in 1..Len(new) :
              /\ new[k].gen = Ctl(r, i)
              /\ new[k].data = Ctl(r, i)
              /\ new[k].part = idx[k]
         /\ \E j \in 1..Len(messages') :
              /\ messages'[j].role = "model"
              /\ messages'[j].run = r
              /\ messages'[j].task = i

\* C14: the step in which a generation returns a result appends to the image
\* history one entry for each image part of that result that is no thought,
\* in part order, each holding an image of that result, and nothing else
\* (nothing at all when the result has no such part); the model turn of the
\* generation is in the transcript.
C14_LedgerOfOwnResult == [][C14_Step]_vars

\* the step in which the call in flight of run r ends as stopped by the user
TaskStopped(r) ==
  /\ r \in RunIds
  /\ runs'[r].outcomes = Append(runs[r].outcomes, "aborted")

C15_Step ==
  \A r \in 1..MaxRuns :
    TaskStopped(r) =>
      /\ \A j \in 1..Len(messages') : ~messages'[j].isError
                                      \/ (j <= Len(messages) /\ messages[j].isError)
      /\ imageHistory' = imageHistory
      /\ \A j \in 1..Len(messages') :
           ~(messages'[j].role = "model" /\ messages'[j].run = r
               /\ messages'[j].task = runs[r].i)
      /\ \A j \in 1..Len(messages') : messages'[j].from # Ctl(r, runs[r].i)

\* C15: the step in which a generation ends as stopped by the user is a clean
\* stop: it marks no message as an error, adds nothing to the image history,
\* and leaves nothing of the stopped task in the transcript, neither its
\* placeholder model turn nor the parts its stream had delivered.
C15_CleanStop == [][C15_Step]_vars

\* C16: the cancellation handle belongs to the call in flight: it holds a
\* controller exactly when a generation call is in flight, and every call in
\* flight finds its own controller in it, so that handleStop aborts it.
C16_HandleOfCallInFlight ==
  /\ (abortRef # NoCtl) <=> (\E r \in RunIds : InFlight(r))
  /\ \A r \in RunIds : InFlight(r) => abortRef = Ctl(r, runs[r].i)

NothingInFlight == \A r \in RunIds : ~InFlight(r)

\* a handleStop that changes the state is made with a call in flight, and
\* right after it a further handleStop changes nothing
C17_Step ==
  HandleStop =>
    /\ ~NothingInFlight
    /\ (~ENABLED <<HandleStop /\ UNCHANGED chatFrame>>_vars)'

\* C17: handleStop changes nothing when no generation call is in flight (the
\* handle is then null, and a stop that changes the state is one made with a
\* call in flight), and it is idempotent: a second handleStop right after a
\* first changes nothing.
C17_StopIdempotent ==
  [](NothingInFlight => abortRef = NoCtl) /\ [][C17_Step]_vars

\* the call in flight was stopped: its controller, held by the handle, is
\* aborted
C17_Witness ==
  \E r \in RunIds :
    /\ InFlight(r)
    /\ abortRef = Ctl(r, runs[r].i)
    /\ abortRef \in aborted

BatchTaskStarts(r) ==
  /\ r \in 1..Len(runs')
  /\ runs'[r].batch
  /\ Len(runs'[r].started) = (IF r \in RunIds THEN Len(runs[r].started) ELSE 0) + 1

C18_Step ==
  /\ \A r \in 1..MaxRuns :
       /\ BatchTaskStarts(r) =>
            batchProgress' = [current |-> Len(runs'[r].started),
                              total |-> Len(runs'[r].tasks)]
       /\ RunCompletes(r) => batchProgress' = [current |-> 0, total |-> 0]
  /\ batchProgress' # batchProgress =>
       \E r \in 1..MaxRuns : BatchTaskStarts(r) \/ RunCompletes(r)

C18_LoneRun ==
  (Len(runs) = 1 /\ runs[1].batch) =>
    IF runs[1].pc = "done"
    THEN batchProgress = [current |-> 0, total |-> 0]
    ELSE /\ batchProgress = [current |-> Len(runs[1].started),
                             total |-> Len(runs[1].tasks)]
         /\ 1 <= batchProgress.current
         /\ batchProgress.current <= batchProgress.total

C19_AtMostFiveSteps ==
  /\ Len(steps) <= 5
  /\ executed.called => Len(executed.steps) <= 5

\* onExecute was called with a full list of 5 steps
C19_Witness ==
  /\ executed.called
  /\ Len(executed.steps) = 5
  /\ Len(steps) = 5

\* the prompt has a character that is not white space
NonBlank(prompt) == \E j \in 1..Len(prompt) : ~IsSpace(prompt[j])

\* there is a step with a non-blank prompt and there is an initial image
Startable ==
  /\ \E k \in 1..Len(steps) : NonBlank(steps[k].prompt)
  /\ Len(attachments) >= 1

\* a step that calls onExecute is taken from a startable editor; a
\* handleExecute on an editor that is not startable calls nothing and leaves
\* the modal open, its mode, steps and attachments as they were; one on a
\* startable editor calls onExecute with the editor's mode and images
C20_Step ==
  /\ executed'.called => Startable /\ isOpen
  /\ HandleExecute =>
       IF Startable
         THEN /\ executed'.called
              /\ executed'.mode = modalMode
              /\ executed'.attachments = attachments
         ELSE /\ ~executed'.called
              /\ isOpen'
              /\ alerted' # "none"
              /\ UNCHANGED <<modalMode, steps, attachments>>

\* C20: onExecute is called only when the editor has a step with a non-blank
\* prompt and at least one initial image; otherwise handleExecute calls
\* nothing and leaves the modal open with its mode, steps and attachments
\* unchanged.
C20_ExecuteOnlyWhenStartable ==
  [](executed.called => Startable) /\ [][C20_Step]_vars

\* handleExecute refused an editor that has images and whose prompts are all
\* blank, one of them made of white space
C20_Witness ==
  /\ alerted = "no step"
  /\ isOpen
  /\ ~executed.called
  /\ Len(attachments) >= 1
  /\ \E k \in 1..Len(steps) : steps[k].prompt = <<" ">>

\* ---------------------------------------- properties of the pipeline executor
Started == pipeline.pc # "none"

PipeSteps == IF Started THEN 1..Len(pipeline.status) ELSE {}

\* the steps invoked so far
Invoked == IF Started THEN { pipeline.invoked[j] : j \in 1..Len(pipeline.invoked) }
           ELSE {}

\* the indices of the parts of a result that are images and not thoughts
NonThoughtImageParts(parts) == { i \in 1..Len(parts) : parts[i] = "image" }

\* imgs is, in order, the non-thought image parts of the result of step k
IsImagesOf(imgs, k, parts) ==
  /\ Len(imgs) = Cardinality(NonThoughtImageParts(parts))
  /\ \A j \in 1..Len(imgs) :
       /\ imgs[j].step = k
       /\ imgs[j].part \in NonThoughtImageParts(parts)
       /\ j > 1 => imgs[j - 1].part < imgs[j].part

\* step k has returned a result
Returned(k) == pipeline.results[k] # <<>>

\* C21: in serial mode the steps are invoked in array order, the first with
\* the full initial image set and each later one with exactly the non-thought
\* image parts of the previous step's result; when a step's result holds no
\* image, no later step is ever invoked and every later step has status
\* 'failed'.
C21_SerialChain ==
  (Started /\ pipeline.mode = "serial") =>
    /\ pipeline.invoked = [ j \in 1..Len(pipeline.invoked) |-> j ]
    /\ \A k \in Invoked :
         IF k = 1 THEN pipeline.inputs[k] = pipeline.initial
         ELSE /\ Returned(k - 1)
              /\ IsImagesOf(pipeline.inputs[k], k - 1, pipeline.results[k - 1])
    /\ \A k \in PipeSteps :
         (Returned(k) /\ NonThoughtImageParts(pipeline.results[k]) = {}) =>
           \A j \in PipeSteps : j > k =>
             j \notin Invoked /\ pipeline.status[j] = "failed"

\* a chain of three steps: the first returned two images, the second got
\* them and returned none, the third was never invoked and is failed
C21_Witness ==
  /\ Started
  /\ pipeline.mode = "serial"
  /\ pipeline.invoked = <<1, 2>>
  /\ Len(pipeline.inputs[2]) = 2
  /\ Returned(2)
  /\ pipeline.status = <<"done", "failed", "failed">>

\* a step of the executor in which step k fails in parallel mode: no other
\* step's status, input or result changes and the executor goes on to step
\* k + 1, if there is one
C22_FailureStep ==
  (Started /\ pipeline.mode = "parallel") =>
    \A k \in PipeSteps :
      (pipeline.status[k] # "failed" /\ pipeline'.status[k] = "failed") =>
        /\ \A j \in PipeSteps \ {k} :
             /\ pipeline'.status[j] = pipeline.status[j]
             /\ pipeline'.inputs[j] = pipeline.inputs[j]
             /\ pipeline'.results[j] = pipeline.results[j]
        /\ pipeline'.pc = IF k = Len(pipeline.status) THEN "done" ELSE "ready"
        /\ k < Len(pipeline.status) => pipeline'.cur = k + 1

\* in parallel mode every step invoked got the initial image set, which is
\* the one the pipeline was started with, and at most one generation call is
\* in flight
C22_SharedInput ==
  (Started /\ pipeline.mode = "parallel") =>
    /\ pipeline.initial = InitialImages(Len(pipeline.initial))
    /\ \A k \in Invoked : pipeline.inputs[k] = pipeline.initial
    /\ Cardinality(pipeline.inflight) <= 1
    /\ pipeline.pc = "call" <=> pipeline.inflight # {}

\* C22: in parallel mode every step receives the identical, unmodified initial
\* image set whatever the results or failures of the other steps, a failure
\* of one step leaves the other steps unaffected, and the steps are executed
\* one at a time, never two generation calls in flight.
C22_ParallelIsolation == []C22_SharedInput /\ [][C22_FailureStep]_vars

\* three parallel steps on two images: the first returned images, the second
\* failed, and the third was invoked with the two initial images
C22_Witness ==
  /\ Started
  /\ pipeline.mode = "parallel"
  /\ Len(pipeline.initial) = 2
  /\ pipeline.invoked = <<1, 2, 3>>
  /\ pipeline.status[1] = "done"
  /\ NonThoughtImageParts(pipeline.results[1]) # {}
  /\ pipeline.status[2] = "failed"
  /\ pipeline.inputs[3] = pipeline.initial

\* ------------------------------------- properties of the generation's frame
\* the step in which a generation of run r returns, whatever its outcome
GenerationEnds(r) ==
  /\ r \in RunIds
  /\ Len(runs'[r].ended) = Len(runs[r].ended) + 1

\* the step in which a generation starts: the first of a new run, or the next
\* of a batch run
GenerationStarts ==
  \/ Len(runs') = Len(runs) + 1 /\ runs'[Len(runs')].started # <<>>
  \/ \E r \in RunIds : Len(runs'[r].started) = Len(runs[r].started) + 1

\* a generation that returns leaves the loading flag false and the handle
\* null, whatever its outcome; a generation that starts sets the flag; and
\* the flag is cleared by nothing but a generation that returns
C23_Step ==
  /\ \A r \in 1..MaxRuns :
       GenerationEnds(r) =>
         /\ runs'[r].outcomes[Len(runs'[r].outcomes)]
              \in {"ok", "failed", "aborted", "silenced"}
         /\ ~isLoading'
         /\ abortRef' = NoCtl
  /\ GenerationStarts => isLoading'
  /\ (isLoading /\ ~isLoading') => \E r \in 1..MaxRuns : GenerationEnds(r)

\* while the only run there is has a generation in flight, the flag is set
C23_LoneGenerationLoading == (Len(runs) = 1 /\ InFlight(1)) => isLoading

\* C23: executeSingleGeneration ends its bookkeeping the same way on success,
\* on an error and on an abort: when it returns the loading flag is false and
\* the shared abort handle is null; and while a single generation that
\* overlaps no other is in flight, the loading flag is true.
C23_SameBookkeeping == []C23_LoneGenerationLoading /\ [][C23_Step]_vars

\* generations have returned with each of the three outcomes, none is in
\* flight, the flag is false and the handle null
C23_Witness ==
  /\ \A o \in {"ok", "failed", "aborted"} :
       \E r \in RunIds : \E j \in 1..Len(runs[r].outcomes) :
         runs[r].outcomes[j] = o
  /\ \A r \in RunIds : ~InFlight(r)
  /\ ~isLoading
  /\ abortRef = NoCtl

\* the step in which the call in flight of run r ends with an error that is
\* no abort and is reported
GenerationFails(r) ==
  /\ r \in RunIds
  /\ runs'[r].outcomes = Append(runs[r].outcomes, "failed")

\* the positions in the transcript of the model placeholder that task i of
\* run r appended
PlaceholderOf(r, i) ==
  { j \in 1..Len(messages) :
      /\ messages[j].role = "model"
      /\ messages[j].run = r
      /\ messages[j].task = i }

C24_Step ==
  \A r \in 1..MaxRuns :
    GenerationFails(r) =>
      /\ Len(messages') = Len(messages)
      /\ imageHistory' = imageHistory
      /\ \E j \in PlaceholderOf(r, runs[r].i) :
           /\ messages'[j].parts = <<"errorText">>
           /\ messages'[j].isError
           /\ \A k \in 1..Len(messages) : k # j => messages'[k] = messages[k]

\* C24: when a generation call fails with an error that is no abort, the
\* model placeholder this generation appended is the message replaced by the
\* one error-text part flagged as an error, the image ledger gets no entry,
\* and no other message of the transcript is modified, at every position of
\* the task in a batch and under every interleaving with other sends.
C24_ErrorInOwnPlaceholder == [][C24_Step]_vars

\* the run and task of the generation a step starts
StartedIn(r) ==
  \/ r = Len(runs') /\ Len(runs') = Len(runs) + 1 /\ runs'[r].started # <<>>
  \/ r \in RunIds /\ Len(runs'[r].started) = Len(runs[r].started) + 1

\* a generation that starts appends its user message and, right after it, its
\* empty model message to the transcript as it was (cut first, by a
\* regenerate)
C25_StartStep ==
  \A r \in 1..MaxRuns :
    StartedIn(r) =>
      LET i == runs'[r].i
          n == Len(messages')
      IN /\ n >= 2
         /\ IsPrefix(SubSeq(messages', 1, n - 2), messages)
         /\ r \in RunIds => Len(messages) = n - 2
         /\ messages'[n - 1] = UserMessage(r, i, runs'[r].tasks[i])
         /\ messages'[n] = ModelMessage(r, i)

\* when a batch run of n tasks, none of them stopped, reaches its end, the
\* transcript ends with the 2n messages of its tasks, user and model in
\* turn, and the model message of task i holds what the call of task i
\* delivered: its result, or the error text flagged as an error
C25_CompletionStep ==
  \A r \in 1..MaxRuns :
    (RunCompletes(r) /\ \A k \in 1..Len(runs'[r].outcomes) :
                          runs'[r].outcomes[k] \in {"ok", "failed"}) =>
      LET n == Len(runs'[r].tasks)
          base == Len(messages') - 2 * n
      IN /\ base >= 0
         /\ \A i \in 1..n :
              LET u == messages'[base + 2 * i - 1]
                  m == messages'[base + 2 * i]
              IN /\ u = UserMessage(r, i, runs'[r].tasks[i])
                 /\ m.role = "model" /\ m.run = r /\ m.task = i
                 /\ m.from = Ctl(r, i)
                 /\ m.parts # <<>>
                 /\ m.isError <=> runs'[r].outcomes[i] = "failed"
                 /\ m.isError => m.parts = <<"errorText">>

\* C25: each started generation appends exactly one user message immediately
\* followed by exactly one model message, whatever its outcome, so a batch of
\* n tasks that runs to completion grows the transcript by exactly 2n
\* messages, user and model in turn, and the model message of task i holds
\* the result (or the error) of task i.
C25_TwoMessagesPerTask == [][C25_StartStep /\ C25_CompletionStep]_vars

\* the indices of the editor's steps whose prompt is not blank
NonBlankSteps == { k \in 1..Len(steps) : NonBlank(steps[k].prompt) }

\* the j-th of them, counted from 1
NthNonBlank(j) ==
  CHOOSE k \in NonBlankSteps :
    Cardinality({ l \in NonBlankSteps : l < k }) = j - 1

\* C26: the steps passed to onExecute are exactly the editor's steps whose
\* prompt is not blank, in their order in the editor, together with the
\* editor's mode and its whole attachment list in order; no blank step is
\* passed, and every step passed has status 'pending', whatever the editor
\* operations before.
C26_PassesNonBlankSteps ==
  /\ \A k \in 1..Len(steps) : steps[k].status = "pending"
  /\ executed.called =>
       /\ executed.mode = modalMode
       /\ executed.attachments = attachments
       /\ Len(executed.steps) = Cardinality(NonBlankSteps)
       /\ \A j \in 1..Len(executed.steps) :
            /\ executed.steps[j] = steps[NthNonBlank(j)]
            /\ NonBlank(executed.steps[j].prompt)
            /\ executed.steps[j].status = "pending"

\* onExecute was called in parallel mode with two images and two steps of
\* different prompts, a blank step of the editor left out
C26_Witness ==
  /\ executed.called
  /\ executed.mode = "parallel"
  /\ Len(executed.attachments) = 2
  /\ Len(executed.steps) = 2
  /\ executed.steps[1].prompt # executed.steps[2].prompt
  /\ Len(steps) > 2

\* how often x occurs in list
CountOf(list, x) == Cardinality({ k \in 1..Len(list) : list[k] = x })

\* list b holds the entries of list a, each as often
IsPermutation(a, b) ==
  /\ Len(a) = Len(b)
  /\ \A k \in 1..Len(a) : CountOf(a, a[k]) = CountOf(b, a[k])

\* the step is a handleMoveStep call
MoveCalled ==
  \E index \in 1..Len(steps), direction \in {"up", "down"} :
    CallMoveStep(index, direction)

\* the step is a handleMoveStep call one of the editor's buttons makes
MoveOffered ==
  \E index \in 1..Len(steps), direction \in {"up", "down"} :
    HandleMoveStep(index, direction)

\* C27 as stated: the step list is never empty and holds no undefined entry,
\* a remove on a single step changes nothing, and handleMoveStep leaves the
\* list a permutation of what it was for every index and direction, 'up' at
\* the first index and 'down' at the last included.
C27_MovesPermuteAlways ==
  [](Len(steps) >= 1 /\ Intact)
    /\ [][MoveCalled => IsPermutation(steps, steps')]_vars

\* a remove on a single step changes nothing; a move the editor offers leaves
\* a permutation; a step that puts an undefined entry into the list is a
\* handleMoveStep call at an edge: 'up' on the first step, which replaces it
\* by undefined, or 'down' on the last, which puts undefined in its place and
\* the step in a new slot after it
C27_Step ==
  /\ (Len(steps) = 1 /\ \E index \in 1..Len(steps) : HandleRemoveStep(index))
       => steps' = steps
  /\ MoveOffered => IsPermutation(steps, steps') /\ Intact'
  /\ (Intact /\ ~Intact') =>
       \/ /\ CallMoveStep(1, "up")
          /\ steps' = [steps EXCEPT ![1] = UndefinedStep]
       \/ /\ CallMoveStep(Len(steps), "down")
          /\ Len(steps') = Len(steps) + 1
          /\ steps'[Len(steps)] = UndefinedStep
          /\ steps'[Len(steps')] = steps[Len(steps)]

\* C27, amended: the step list is never empty; remove-step does nothing when
\* a single step remains; every move the editor offers leaves the list a
\* permutation of what it was; and the list holds no undefined entry unless
\* handleMoveStep was called 'up' on the first step or 'down' on the last,
\* which the editor's buttons never do.
C27_OfferedMovesPermute == [](Len(steps) >= 1) /\ [][C27_Step]_vars

\* handleMoveStep was called 'down' on the last of two steps: the list has
\* three slots, the second undefined and the third holding the step
C27_Witness ==
  /\ Len(steps) = 3
  /\ steps[1].prompt = <<"t">>
  /\ steps[2] = UndefinedStep
  /\ steps[3].prompt = <<"p">>

\* a processFiles call reaches its setAttachments in this step
Added(c) == uploads.calls[c].pending /\ ~uploads'.calls[c].pending

\* an attachment is removed in this step
Removed == uploads'.removals # uploads.removals

C28_Step ==
  /\ \A c \in 1..Len(uploads.calls) :
       Added(c) =>
         LET new == uploads.calls[c].newAttachments
             kept == Len(attachments)
         IN /\ Len(attachments') =
                 IF kept + Len(new) > 14 THEN 14 ELSE kept + Len(new)
            /\ \A k \in 1..Len(attachments') :
                 attachments'[k] = IF k <= kept THEN attachments[k]
                                   ELSE new[k - kept]
  /\ Removed =>
       \E index \in 1..Len(attachments) :
         /\ Len(attachments') = Len(attachments) - 1
         /\ \A k \in 1..Len(attachments') :
              attachments'[k] = IF k < index THEN attachments[k]
                                ELSE attachments[k + 1]

\* C28: the modal never holds more than 14 initial images: after any
\* sequence of file additions, of any size and overlapping, and removals,
\* the list has at most 14 entries; an addition keeps the attachments the
\* list holds in order, appends the new ones after them and drops the
\* excess beyond 14 from the end; a removal takes out one entry and keeps
\* the order of the rest
C28_AtMostFourteenImages ==
  [](Len(attachments) <= 14) /\ [][C28_Step]_vars

\* two overlapping picks of MaxPicked files each have both updated the list,
\* the later pick first: the list is full, starts with the later pick's
\* images, goes on with the earlier pick's and has dropped the earlier
\* pick's last image
C28_Witness ==
  /\ Len(uploads.calls) = 2
  /\ ~uploads.calls[1].pending
  /\ ~uploads.calls[2].pending
  /\ Len(attachments) = 14
  /\ attachments[1] = FileId(2, 1)
  /\ attachments[14] = FileId(1, 1)
  /\ \A k \in 1..14 : attachments[k] # FileId(1, MaxPicked)
====
